---- MODULE Spec2Model ----
(***************************************************************************)
(* A model of src/src/main.rs: the DeterministicFiniteAutomaton 5-tuple,   *)
(* its constructor `new`, and the run simulation `is_accepted`, which      *)
(* produces a Sequence (the run trace).                                    *)
(*                                                                         *)
(* Q and A are instantiated with small integers (as in the test            *)
(* figure_one_six, where both are i32).  A Vec that the code only ever     *)
(* queries with `contains` is a set.  The transition function is an opaque *)
(* Fn value: it is identified by a name and applied with Delta.            *)
(***************************************************************************)
EXTENDS Integers, Sequences, FiniteSets, TLC

\* ------------------------------------------------------------------ bounds

\* Longest input string handed to is_accepted under Spec.
MaxLen == 3

\* Longest input string under SpecFig16 (the figure_one_six automaton).
MaxLenFig == 8

\* Longest input string under SpecTwo (two runs side by side).
MaxLenTwo == 3

\* Longest input string under SpecLive (termination).
MaxLenLive == 2

\* Longest input string under SpecFig111 (the figure_one_eleven automaton).
MaxLenFig111 == 7

\* ------------------------------------------------------------------ values

\* The values of type Q and of type A the model draws from.
QUniverse == {1, 2, 3}
AUniverse == {0, 1}

\* Option::None as returned by the transition function (no state is 0).
None == 0

Runs == {1, 2}

\* format!("{:?}", x) for an i32.
DebugI32(n) ==
    CASE n = 0 -> "0"
      [] n = 1 -> "1"
      [] n = 2 -> "2"
      [] n = 3 -> "3"
      [] n = 4 -> "4"
      [] OTHER -> "i32"

\* The &'static str states and the char symbols of the test
\* figure_one_eleven, numbered apart from the i32 values (a char by its
\* code point).
str_s == 11
str_q1 == 12
str_q2 == 13
str_r1 == 14
str_r2 == 15
char_a == 97
char_b == 98

\* format!("{:?}", x) for a &str: the text in double quotes.
DebugStr(q) ==
    CASE q = str_s -> "\"s\""
      [] q = str_q1 -> "\"q1\""
      [] q = str_q2 -> "\"q2\""
      [] q = str_r1 -> "\"r1\""
      [] q = str_r2 -> "\"r2\""
      [] OTHER -> "str"

\* format!("{:?}", x) for a char: the character in single quotes.
DebugChar(c) ==
    CASE c = char_a -> "'a'"
      [] c = char_b -> "'b'"
      [] OTHER -> "char"

\* format!("{:?}", x): the Debug implementation of the value's type.
Debug(x) ==
    CASE x \in {str_s, str_q1, str_q2, str_r1, str_r2} -> DebugStr(x)
      [] x \in {char_a, char_b} -> DebugChar(x)
      [] OTHER -> DebugI32(x)

\* format!("")
EmptyMarker == ""

\* figure_one_six_transition with the arm (3, 0) looping on state 3.
figure_one_six_transition_loop3(q, a) ==
    CASE q = 1 /\ a = 0 -> 1
      [] q = 1 /\ a = 1 -> 2
      [] q = 2 /\ a = 0 -> 3
      [] q = 2 /\ a = 1 -> 2
      [] q = 3 /\ a = 0 -> 3
      [] q = 3 /\ a = 1 -> 2
      [] OTHER -> None

\* The transition function of the test figure_one_six.
figure_one_six_transition(q, a) ==
    CASE q = 1 /\ a = 0 -> 1
      [] q = 1 /\ a = 1 -> 2
      [] q = 2 /\ a = 0 -> 3
      [] q = 2 /\ a = 1 -> 2
      [] q = 3 /\ a = 0 -> 2
      [] q = 3 /\ a = 1 -> 2
      [] OTHER -> None

\* figure_one_eleven_transition with the arm ("q2", 'a') staying in "q2".
figure_one_eleven_transition_stay(q, a) ==
    CASE q = str_s /\ a = char_a -> str_q1
      [] q = str_s /\ a = char_b -> str_r1
      [] q = str_q1 /\ a = char_a -> str_q1
      [] q = str_q1 /\ a = char_b -> str_q2
      [] q = str_q2 /\ a = char_a -> str_q2
      [] q = str_q2 /\ a = char_b -> str_q2
      [] q = str_r1 /\ a = char_a -> str_r2
      [] q = str_r1 /\ a = char_b -> str_r1
      [] q = str_r2 /\ a = char_a -> str_r2
      [] q = str_r2 /\ a = char_b -> str_r1
      [] OTHER -> None

\* The transition function of the test figure_one_eleven.
figure_one_eleven_transition(q, a) ==
    CASE q = str_s /\ a = char_a -> str_q1
      [] q = str_s /\ a = char_b -> str_r1
      [] q = str_q1 /\ a = char_a -> str_q1
      [] q = str_q1 /\ a = char_b -> str_q2
      [] q = str_q2 /\ a = char_a -> str_q1
      [] q = str_q2 /\ a = char_b -> str_q2
      [] q = str_r1 /\ a = char_a -> str_r2
      [] q = str_r1 /\ a = char_b -> str_r1
      [] q = str_r2 /\ a = char_a -> str_r2
      [] q = str_r2 /\ a = char_b -> str_r1
      [] OTHER -> None

\* A transition function with undefined pairs: F is any Fn(Q,&A) -> Option<Q>.
partial_transition(q, a) ==
    CASE q = 1 /\ a = 0 -> 2
      [] q = 2 /\ a = 1 -> 3
      [] q = 3 /\ a = 0 -> 1
      [] q = 3 /\ a = 1 -> 3
      [] OTHER -> None

\* A transition function defined on one symbol only.
cycle_transition(q, a) ==
    CASE q = 1 /\ a = 1 -> 2
      [] q = 2 /\ a = 1 -> 3
      [] q = 3 /\ a = 1 -> 1
      [] OTHER -> None

\* The transition functions AllDfa draws from.
DeltaNames == {"figure_one_six", "partial", "cycle"}

\* (self.transition_function)(state.clone(), &symbol)
Delta(f, q, a) ==
    CASE f = "figure_one_six" -> figure_one_six_transition(q, a)
      [] f = "partial" -> partial_transition(q, a)
      [] f = "cycle" -> cycle_transition(q, a)
      [] f = "figure_one_eleven" -> figure_one_eleven_transition(q, a)
      [] OTHER -> None

\* Vec::contains
Contains(v, x) == x \in v

\* The struct DeterministicFiniteAutomaton.
DeterministicFiniteAutomaton(Q, A, f, q0, F) ==
    [states |-> Q, input_alphabet |-> A, transition_function |-> f,
     start_state |-> q0, final_states |-> F]

\* No automaton value (nothing constructed, or moved away).
NoDfa == DeterministicFiniteAutomaton({}, {}, "none", None, {})

\* Every automaton value a struct literal can build.
AllDfa ==
    { DeterministicFiniteAutomaton(Q, A, f, q0, F) :
        Q \in SUBSET QUniverse, A \in SUBSET AUniverse, f \in DeltaNames,
        q0 \in QUniverse, F \in SUBSET QUniverse }

\* The struct Sequence.
Sequence(d, s, acc) == [dfa |-> d, sequence |-> s, accept |-> acc]

\* No Sequence value (not yet created, or dropped by a panic).
NoSequence == Sequence(NoDfa, <<>>, FALSE)

\* Input strings (Vec<A>) over the symbols A, of length at most n.
StringsOver(A, n) == UNION { [1..k -> A] : k \in 0..n }

\* Input strings (Vec<A>) of length at most n.
Strings(n) == StringsOver(AUniverse, n)

\* ------------------------------------------------------------------ state

VARIABLES
    ctor,       \* position of the constructing caller
    args,       \* the arguments of a pending call of new
    dfa,        \* the automaton value
    pc,         \* per run: position inside is_accepted
    string,     \* per run: the input Vec<A>
    i,          \* per run: 1-based index of the loop's next symbol
    state,      \* per run: the local `state`
    sequence,   \* per run: the local `sequence` (the trace)
    fault,      \* per run: the assertion that failed
    lookups     \* per run: calls of the transition function so far

vars == <<ctor, args, dfa, pc, string, i, state, sequence, fault, lookups>>

runVars == <<pc, string, i, state, sequence, fault, lookups>>

\* ------------------------------------------------------------------ new

\* A caller invokes new(states, input_alphabet, transition_function,
\* start_state, final_states).
CallNew ==
    /\ ctor = "start"
    /\ \E d \in AllDfa : args' = d
    /\ ctor' = "new"
    /\ UNCHANGED <<dfa, runVars>>

\* StartOk with the assertion compiled out.
StartOkUnchecked(a) == TRUE

\* assert!(states.contains(&start_state))
StartOk(a) == Contains(a.states, a.start_state)

\* final_states.iter().inspect(|q| assert!(states.contains(q))): the adaptor
\* is lazy and is dropped without being consumed, so the closure never runs
\* and the statement passes whatever final_states holds.
FinalsOk(a) == TRUE

\* The body of new: the two checks, then Self{..} is returned.
New ==
    /\ ctor = "new"
    /\ IF StartOk(args) /\ FinalsOk(args)
         THEN /\ dfa' = args
              /\ ctor' = "built"
         ELSE /\ dfa' = NoDfa
              /\ ctor' = "panicked"
    /\ args' = NoDfa
    /\ UNCHANGED runVars

\* The automaton is built with a struct literal, as figure_one_six does.
Literal ==
    /\ ctor = "start"
    /\ \E d \in AllDfa : dfa' = d
    /\ ctor' = "literal"
    /\ UNCHANGED <<args, runVars>>

\* ------------------------------------------------------------------ is_accepted

\* An automaton value exists.
Built == ctor \in {"built", "literal"}

\* Call resetting a trace buffer that all runs share.
CallClearsShared(r, w) ==
    /\ Built
    /\ pc[r] \in {"idle", "done", "panicked"}
    /\ pc' = [pc EXCEPT ![r] = "check"]
    /\ string' = [string EXCEPT ![r] = w]
    /\ i' = [i EXCEPT ![r] = 1]
    /\ state' = [state EXCEPT ![r] = None]
    /\ sequence' = [o \in Runs |-> NoSequence]
    /\ fault' = [fault EXCEPT ![r] = "none"]
    /\ lookups' = [lookups EXCEPT ![r] = 0]
    /\ UNCHANGED <<ctor, args, dfa>>

\* A caller invokes dfa.is_accepted(w) in run slot r.
Call(r, w) ==
    /\ Built
    /\ pc[r] \in {"idle", "done", "panicked"}
    /\ pc' = [pc EXCEPT ![r] = "check"]
    /\ string' = [string EXCEPT ![r] = w]
    /\ i' = [i EXCEPT ![r] = 1]
    /\ state' = [state EXCEPT ![r] = None]
    /\ sequence' = [sequence EXCEPT ![r] = NoSequence]
    /\ fault' = [fault EXCEPT ![r] = "none"]
    /\ lookups' = [lookups EXCEPT ![r] = 0]
    /\ UNCHANGED <<ctor, args, dfa>>

\* SymbolOk with the assertion compiled out.
SymbolOkUnchecked(d, a) == TRUE

\* assert!(self.input_alphabet.contains(a))
SymbolOk(d, a) == Contains(d.input_alphabet, a)

\* One iteration of `for a in string.iter()`.
CheckSymbol(r) ==
    /\ pc[r] = "check"
    /\ i[r] <= Len(string[r])
    /\ IF SymbolOk(dfa, string[r][i[r]])
         THEN /\ i' = [i EXCEPT ![r] = i[r] + 1]
              /\ UNCHANGED <<pc, fault>>
         ELSE /\ pc' = [pc EXCEPT ![r] = "panicked"]
              /\ fault' = [fault EXCEPT ![r] = "input_alphabet"]
              /\ UNCHANGED i
    /\ UNCHANGED <<ctor, args, dfa, string, state, sequence, lookups>>

\* InitialSequence with a single entry for the start state.
InitialSequenceSingle(d) ==
    Sequence(d,
             << <<d.start_state, EmptyMarker>> >>,
             Contains(d.final_states, d.start_state))

\* InitialSequence with the verdict initialised to rejected.
InitialSequenceRejecting(d) ==
    Sequence(d,
             << <<d.start_state, Debug(d.start_state)>>,
                <<d.start_state, EmptyMarker>> >>,
             FALSE)

\* InitialSequence whose automaton snapshot lost its accepting states.
InitialSequenceNoFinals(d) ==
    Sequence([d EXCEPT !.final_states = {}],
             << <<d.start_state, Debug(d.start_state)>>,
                <<d.start_state, EmptyMarker>> >>,
             Contains(d.final_states, d.start_state))

\* The Sequence as it stands before the main loop: the start state tagged
\* with its own debug representation, then tagged with the empty string.
InitialSequence(d) ==
    Sequence(d,
             << <<d.start_state, Debug(d.start_state)>>,
                <<d.start_state, EmptyMarker>> >>,
             Contains(d.final_states, d.start_state))

\* StartOfRun reading a current-state cell that the runs share: the run
\* resumes from the state the other run is in.
StartOfRunShared(r) ==
    LET o == CHOOSE x \in Runs : x # r
    IN  IF pc[o] \in {"loop", "done"} THEN state[o] ELSE dfa.start_state

\* let mut state = self.start_state.clone(), in run r.
StartOfRun(r) == dfa.start_state

\* The alphabet loop is over: r0 = q0, the Sequence is created.
Begin(r) ==
    /\ pc[r] = "check"
    /\ i[r] > Len(string[r])
    /\ pc' = [pc EXCEPT ![r] = "loop"]
    /\ i' = [i EXCEPT ![r] = 1]
    /\ state' = [state EXCEPT ![r] = StartOfRun(r)]
    /\ sequence' = [sequence EXCEPT ![r] = InitialSequence(dfa)]
    /\ UNCHANGED <<ctor, args, dfa, string, fault, lookups>>

\* SomeArm tagging the entry with the state instead of the symbol.
SomeArmTagsState(d, seq, next_state, symbol) ==
    Sequence(seq.dfa,
             Append(seq.sequence, <<next_state, Debug(next_state)>>),
             Contains(d.final_states, next_state))

\* SomeArm with the verdict left as it was (the recomputation forgotten).
SomeArmStaleVerdict(d, seq, next_state, symbol) ==
    Sequence(seq.dfa,
             Append(seq.sequence, <<next_state, Debug(symbol)>>),
             seq.accept)

\* The Some(next_state) arm after its assertion passed.
SomeArm(d, seq, next_state, symbol) ==
    Sequence(seq.dfa,
             Append(seq.sequence, <<next_state, Debug(symbol)>>),
             Contains(d.final_states, next_state))

\* NoneArm returning the sequence with the verdict of the state it stopped in.
NoneArmKeepVerdict(seq) == seq

\* The None arm: sequence.accept = false; return sequence.
NoneArm(seq) == Sequence(seq.dfa, seq.sequence, FALSE)

\* TargetOk asserting on the start state instead of next_state.
TargetOkChecksStart(d, next_state) == Contains(d.states, d.start_state)

\* TargetOk with the assertion compiled out.
TargetOkUnchecked(d, next_state) == TRUE

\* assert!(self.states.contains(&next_state))
TargetOk(d, next_state) == Contains(d.states, next_state)

\* LoopStep whose None arm goes on with the next symbol (a `continue` in
\* place of the `return`).
LoopStepContinue(r) ==
    /\ pc[r] = "loop"
    /\ i[r] <= Len(string[r])
    /\ LET symbol == string[r][i[r]]
           next_state == Delta(dfa.transition_function, state[r], symbol)
       IN  /\ lookups' = [lookups EXCEPT ![r] = lookups[r] + 1]
           /\ IF next_state = None
                THEN /\ sequence' = [sequence EXCEPT ![r] = NoneArm(sequence[r])]
                     /\ i' = [i EXCEPT ![r] = i[r] + 1]
                     /\ UNCHANGED <<pc, state, fault>>
                ELSE IF TargetOk(dfa, next_state)
                THEN /\ state' = [state EXCEPT ![r] = next_state]
                     /\ sequence' = [sequence EXCEPT ![r] =
                            SomeArm(dfa, sequence[r], next_state, symbol)]
                     /\ i' = [i EXCEPT ![r] = i[r] + 1]
                     /\ UNCHANGED <<pc, fault>>
                ELSE /\ pc' = [pc EXCEPT ![r] = "panicked"]
                     /\ fault' = [fault EXCEPT ![r] = "states"]
                     /\ sequence' = [sequence EXCEPT ![r] = NoSequence]
                     /\ UNCHANGED <<i, state>>
    /\ UNCHANGED <<ctor, args, dfa, string>>

\* One iteration of `for symbol in string`: the match on the transition.
LoopStep(r) ==
    /\ pc[r] = "loop"
    /\ i[r] <= Len(string[r])
    /\ LET symbol == string[r][i[r]]
           next_state == Delta(dfa.transition_function, state[r], symbol)
       IN  /\ lookups' = [lookups EXCEPT ![r] = lookups[r] + 1]
           /\ IF next_state = None
                THEN /\ sequence' = [sequence EXCEPT ![r] = NoneArm(sequence[r])]
                     /\ pc' = [pc EXCEPT ![r] = "done"]
                     /\ UNCHANGED <<i, state, fault>>
                ELSE IF TargetOk(dfa, next_state)
                THEN /\ state' = [state EXCEPT ![r] = next_state]
                     /\ sequence' = [sequence EXCEPT ![r] =
                            SomeArm(dfa, sequence[r], next_state, symbol)]
                     /\ i' = [i EXCEPT ![r] = i[r] + 1]
                     /\ UNCHANGED <<pc, fault>>
                ELSE /\ pc' = [pc EXCEPT ![r] = "panicked"]
                     /\ fault' = [fault EXCEPT ![r] = "states"]
                     /\ sequence' = [sequence EXCEPT ![r] = NoSequence]
                     /\ UNCHANGED <<i, state>>
    /\ UNCHANGED <<ctor, args, dfa, string>>

\* FinalVerdict pushing the final state once more onto the path.
FinalVerdictPushesLast(d, seq, st) ==
    Sequence(seq.dfa,
             Append(seq.sequence, <<st, EmptyMarker>>),
             Contains(d.final_states, st))

\* FinalVerdict accepting whenever the whole input was consumed.
FinalVerdictAlways(d, seq, st) == Sequence(seq.dfa, seq.sequence, TRUE)

\* After the loop: if self.final_states.contains(&state) { accept = true }.
FinalVerdict(d, seq, st) ==
    IF Contains(d.final_states, st)
      THEN Sequence(seq.dfa, seq.sequence, TRUE)
      ELSE seq

\* All symbols consumed: the final check, and the return.
Finish(r) ==
    /\ pc[r] = "loop"
    /\ i[r] > Len(string[r])
    /\ sequence' = [sequence EXCEPT ![r] = FinalVerdict(dfa, sequence[r], state[r])]
    /\ pc' = [pc EXCEPT ![r] = "done"]
    /\ UNCHANGED <<ctor, args, dfa, string, i, state, fault, lookups>>

\* The main loop run to its end from the state st with the trace seq over
\* the remaining symbols w: the outcome of the call.
RECURSIVE MainLoop(_, _, _, _)
MainLoop(d, st, seq, w) ==
    IF w = <<>>
      THEN [pc |-> "done", fault |-> "none", sequence |-> FinalVerdict(d, seq, st)]
      ELSE LET next_state == Delta(d.transition_function, st, Head(w))
           IN  IF next_state = None
                 THEN [pc |-> "done", fault |-> "none", sequence |-> NoneArm(seq)]
                 ELSE IF TargetOk(d, next_state)
                 THEN MainLoop(d, next_state,
                               SomeArm(d, seq, next_state, Head(w)), Tail(w))
                 ELSE [pc |-> "panicked", fault |-> "states", sequence |-> NoSequence]

\* is_accepted executed from entry to exit with nothing in between: the
\* outcome of one call on its own.
is_accepted(d, w) ==
    IF \E j \in 1..Len(w) : ~SymbolOk(d, w[j])
      THEN [pc |-> "panicked", fault |-> "input_alphabet", sequence |-> NoSequence]
      ELSE MainLoop(d, d.start_state, InitialSequence(d), w)

\* ------------------------------------------------------------------ specifications

RunInit(on) ==
    /\ pc = [r \in Runs |-> IF r \in on THEN "idle" ELSE "off"]
    /\ string = [r \in Runs |-> <<>>]
    /\ i = [r \in Runs |-> 1]
    /\ state = [r \in Runs |-> None]
    /\ sequence = [r \in Runs |-> NoSequence]
    /\ fault = [r \in Runs |-> "none"]
    /\ lookups = [r \in Runs |-> 0]

\* Spec: any automaton, built by new or by a literal; one run at a time.
Init ==
    /\ ctor = "start"
    /\ args = NoDfa
    /\ dfa = NoDfa
    /\ RunInit({1})

Next ==
    \/ CallNew
    \/ New
    \/ Literal
    \/ \E r \in Runs, w \in Strings(MaxLen) : Call(r, w)
    \/ \E r \in Runs : CheckSymbol(r)
    \/ \E r \in Runs : Begin(r)
    \/ \E r \in Runs : LoopStep(r)
    \/ \E r \in Runs : Finish(r)

Spec == Init /\ [][Next]_vars

\* A step of the body of is_accepted in run r.
RunStep(r) == CheckSymbol(r) \/ Begin(r) \/ LoopStep(r) \/ Finish(r)

\* SpecLive: the runs of any automaton a struct literal can build, where a
\* call that has started keeps executing: the code is synchronous and no
\* step of the body waits for anything.
InitLive ==
    /\ ctor = "literal"
    /\ args = NoDfa
    /\ dfa \in AllDfa
    /\ RunInit({1})

NextLive ==
    \/ \E r \in Runs, w \in Strings(MaxLenLive) : Call(r, w)
    \/ \E r \in Runs : CheckSymbol(r)
    \/ \E r \in Runs : Begin(r)
    \/ \E r \in Runs : LoopStep(r)
    \/ \E r \in Runs : Finish(r)

SpecLive == InitLive /\ [][NextLive]_vars /\ \A r \in Runs : WF_vars(RunStep(r))

\* The automaton of the test figure_one_six, built by its struct literal.
Fig16Dfa == DeterministicFiniteAutomaton({1, 2, 3}, {0, 1}, "figure_one_six", 1, {2})

\* SpecFig16: the runs of the figure_one_six automaton.
InitFig16 ==
    /\ ctor = "literal"
    /\ args = NoDfa
    /\ dfa = Fig16Dfa
    /\ RunInit({1})

NextFig16 ==
    \/ \E r \in Runs, w \in Strings(MaxLenFig) : Call(r, w)
    \/ \E r \in Runs : CheckSymbol(r)
    \/ \E r \in Runs : Begin(r)
    \/ \E r \in Runs : LoopStep(r)
    \/ \E r \in Runs : Finish(r)

SpecFig16 == InitFig16 /\ [][NextFig16]_vars

\* The automata of SpecTwo: total and partial transition functions, an
\* accepting state with undefined transitions, transition targets outside
\* the state set, and a symbol outside the alphabet.
TwoDfa ==
    { Fig16Dfa,
      DeterministicFiniteAutomaton({1, 2, 3}, {0, 1}, "partial", 1, {1, 2}),
      DeterministicFiniteAutomaton({1, 2, 3}, {0, 1}, "cycle", 2, {2, 3}),
      DeterministicFiniteAutomaton({1, 2}, {0, 1}, "figure_one_six", 1, {2}),
      DeterministicFiniteAutomaton({1, 2, 3}, {1}, "cycle", 1, {1}),
      DeterministicFiniteAutomaton({1, 3}, {0, 1}, "partial", 3, {3}) }

\* The automaton of the test figure_one_eleven, built by new.
Fig111Dfa ==
    DeterministicFiniteAutomaton({str_s, str_q1, str_q2, str_r1, str_r2},
                                 {char_a, char_b}, "figure_one_eleven",
                                 str_s, {str_q1, str_r1})

\* SpecFig111: the runs of the figure_one_eleven automaton.
InitFig111 ==
    /\ ctor = "built"
    /\ args = NoDfa
    /\ dfa = Fig111Dfa
    /\ RunInit({1})

NextFig111 ==
    \/ \E r \in Runs, w \in StringsOver({char_a, char_b}, MaxLenFig111) : Call(r, w)
    \/ \E r \in Runs : CheckSymbol(r)
    \/ \E r \in Runs : Begin(r)
    \/ \E r \in Runs : LoopStep(r)
    \/ \E r \in Runs : Finish(r)

SpecFig111 == InitFig111 /\ [][NextFig111]_vars

\* SpecTwo: two calls of is_accepted on one automaton, interleaved step by
\* step (is_accepted takes &self, so calls may overlap).
InitTwo ==
    /\ ctor = "literal"
    /\ args = NoDfa
    /\ dfa \in TwoDfa
    /\ RunInit({1, 2})

NextTwo ==
    \/ \E r \in Runs, w \in Strings(MaxLenTwo) : Call(r, w)
    \/ \E r \in Runs : CheckSymbol(r)
    \/ \E r \in Runs : Begin(r)
    \/ \E r \in Runs : LoopStep(r)
    \/ \E r \in Runs : Finish(r)

SpecTwo == InitTwo /\ [][NextTwo]_vars

\* ------------------------------------------------------------------ reference semantics

\* The formal definition in the comment above is_accepted: the run
\* r0 = q, r_{i+1} = transition(r_i, w_{i+1}); None once a step is undefined.
RECURSIVE DeltaHat(_, _, _)
DeltaHat(d, q, w) ==
    IF w = <<>> THEN q
    ELSE LET n == Delta(d.transition_function, q, Head(w))
         IN  IF n = None THEN None ELSE DeltaHat(d, n, Tail(w))

\* M accepts w: every step of the run is defined and r_n is in F.
Accepts(d, w) ==
    LET rn == DeltaHat(d, d.start_state, w)
    IN  rn # None /\ rn \in d.final_states

Prefix(w, k) == SubSeq(w, 1, k)

\* The path the trace holds after the symbols of u were all consumed.
PathOf(d, u) ==
    << <<d.start_state, Debug(d.start_state)>>, <<d.start_state, EmptyMarker>> >>
    \o [j \in 1..Len(u) |-> <<DeltaHat(d, d.start_state, Prefix(u, j)), Debug(u[j])>>]

\* The 1-based index of the first step of the run over w whose lookup
\* yields a state outside d.states, no step before it being undefined;
\* 0 if there is none.
RECURSIVE FirstBadTarget(_, _, _, _)
FirstBadTarget(d, q, w, k) ==
    IF w = <<>> THEN 0
    ELSE LET n == Delta(d.transition_function, q, Head(w))
         IN  IF n = None THEN 0
             ELSE IF n \notin d.states THEN k
             ELSE FirstBadTarget(d, n, Tail(w), k + 1)

InAlphabet(d, w) == \A j \in 1..Len(w) : w[j] \in d.input_alphabet

\* Run r returned a Sequence.
Returned(r) == pc[r] = "done"

\* Run r returned from the None arm (at the symbol with 1-based index i[r]).
RejectedEarly(r) == pc[r] = "done" /\ i[r] <= Len(string[r])

\* Run r returned after the loop consumed the whole input.
Completed(r) == pc[r] = "done" /\ i[r] > Len(string[r])

Panicked(r) == pc[r] = "panicked"

\* ------------------------------------------------------------------ claims

\* C1: whenever is_accepted returns, accepted is true if and only if the
\* transition function is defined at every step of the run from start_state
\* over the input and the state reached after the last symbol is accepting.
C1_AcceptedIffRunAccepts ==
    \A r \in Runs :
        Returned(r) => (sequence[r].accept <=> Accepts(dfa, string[r]))

\* A run over at least two symbols returned accepted, and so did one not.
C1_Witness ==
    \E r \in Runs :
        /\ Completed(r)
        /\ Len(string[r]) >= 2
        /\ sequence[r].accept
        /\ ~Contains(dfa.final_states, dfa.start_state)

\* C2: when the transition function returns None for (current state, w_k),
\* the call returns without a fault, accepted is false even if the current
\* state is accepting, the path is the one accumulated for the symbols before
\* w_k, and a second call whose input agrees on w_1..w_k (the rest replaced
\* by other alphabet symbols, or removed) returns the same verdict and path.
C2_EarlyRejection ==
    \A r \in Runs :
        RejectedEarly(r) =>
            /\ fault[r] = "none"
            /\ sequence[r].accept = FALSE
            /\ sequence[r].sequence = PathOf(dfa, Prefix(string[r], i[r] - 1))
            /\ \A o \in Runs :
                   ( /\ pc[o] \in {"done", "panicked"}
                     /\ InAlphabet(dfa, string[o])
                     /\ Len(string[o]) >= i[r]
                     /\ Prefix(string[o], i[r]) = Prefix(string[r], i[r]) )
                   => (pc[o] = "done" /\ sequence[o] = sequence[r])

\* A run was rejected early in an accepting state with symbols left over,
\* and the other run, on an input differing after the failing symbol,
\* has finished too.
C2_Witness ==
    \E r, o \in Runs :
        /\ RejectedEarly(r)
        /\ i[r] >= 2
        /\ i[r] < Len(string[r])
        /\ Contains(dfa.final_states, state[r])
        /\ pc[o] = "done"
        /\ string[o] # string[r]
        /\ Len(string[o]) >= i[r]
        /\ Prefix(string[o], i[r]) = Prefix(string[r], i[r])

\* C3: for the empty input, accepted is true exactly when start_state is
\* a member of the accepting states.
C3_EmptyInput ==
    \A r \in Runs :
        (Returned(r) /\ string[r] = <<>>) =>
            (sequence[r].accept <=> dfa.start_state \in dfa.final_states)

\* The empty input was rejected by an automaton that has accepting states.
C3_Witness ==
    \E r \in Runs :
        /\ Returned(r)
        /\ string[r] = <<>>
        /\ ~sequence[r].accept
        /\ dfa.final_states # {}

\* C4: an input holding a symbol outside the alphabet, at any position,
\* never gets a trace: the run performs no transition lookup and builds no
\* Sequence, and when it ends it ends in the input_alphabet assertion.
C4_InvalidSymbolIsFatal ==
    \A r \in Runs :
        ~InAlphabet(dfa, string[r]) =>
            /\ pc[r] \in {"check", "panicked"}
            /\ lookups[r] = 0
            /\ sequence[r] = NoSequence
            /\ (Panicked(r) => fault[r] = "input_alphabet")

\* The run panicked on its second symbol although its first symbol, which
\* is in the alphabet, has no transition from the start state.
C4_Witness ==
    \E r \in Runs :
        /\ Panicked(r)
        /\ fault[r] = "input_alphabet"
        /\ i[r] = 2
        /\ Delta(dfa.transition_function, dfa.start_state, string[r][1]) = None

\* C5: a run panics in the states assertion exactly at the first step whose
\* lookup yields a state outside the state set; a run that returns a trace
\* reached no such step, whatever the transition function yields at pairs
\* the run did not reach.
C5_InvalidTargetIsFatal ==
    \A r \in Runs :
        /\ (Panicked(r) /\ fault[r] = "states") =>
               /\ InAlphabet(dfa, string[r])
               /\ FirstBadTarget(dfa, dfa.start_state, string[r], 1) = i[r]
               /\ sequence[r] = NoSequence
        /\ Returned(r) =>
               FirstBadTarget(dfa, dfa.start_state, string[r], 1) = 0
        /\ (pc[r] = "loop" /\ FirstBadTarget(dfa, dfa.start_state, string[r], 1) # 0) =>
               i[r] <= FirstBadTarget(dfa, dfa.start_state, string[r], 1)

\* A pair of the automaton whose lookup yields a state outside the state set.
BadPair(d, q, a) ==
    /\ Delta(d.transition_function, q, a) # None
    /\ Delta(d.transition_function, q, a) \notin d.states

\* A run panicked at its third symbol on an invalid transition target.
C5_Witness ==
    \E r \in Runs :
        /\ Panicked(r)
        /\ fault[r] = "states"
        /\ i[r] = 3

\* A run returned after an early rejection although the pair made of the
\* state it stopped in and a symbol after the failing one has an invalid target.
C5_UnreachedWitness ==
    \E r \in Runs :
        /\ RejectedEarly(r)
        /\ i[r] < Len(string[r])
        /\ BadPair(dfa, state[r], string[r][i[r] + 1])

\* C6: construction with new fails whenever an accepting state is absent
\* from the state set: no automaton built by new has an accepting state
\* outside its states.
C6_NewRejectsBadFinals ==
    ctor = "built" => \A q \in dfa.final_states : q \in dfa.states

\* C7: new fails whenever start_state is absent from the state set, and
\* whenever start_state and every accepting state are members of the state
\* set it succeeds and the automaton holds exactly the supplied components.
C7_NewChecksStart ==
    [][ ctor = "new" =>
          /\ (args.start_state \notin args.states) =>
                 (ctor' = "panicked" /\ dfa' = NoDfa)
          /\ (args.start_state \in args.states /\ args.final_states \subseteq args.states) =>
                 (ctor' = "built" /\ dfa' = args) ]_vars

\* new has panicked and produced no automaton.
C7_Witness == ctor = "panicked" /\ dfa = NoDfa

\* new has produced an automaton with accepting states, all in the state set.
C7_SuccessWitness ==
    /\ ctor = "built"
    /\ dfa.final_states # {}
    /\ dfa.final_states \subseteq dfa.states

\* C8: a run that consumed all n symbols returns a path of n+2 entries; a
\* run rejected early at the symbol with 0-based index k (1-based i = k+1)
\* returns a path of k+2 entries.
C8_TraceLength ==
    \A r \in Runs :
        /\ Completed(r) => Len(sequence[r].sequence) = Len(string[r]) + 2
        /\ RejectedEarly(r) => Len(sequence[r].sequence) = (i[r] - 1) + 2

\* A run was rejected early at its third symbol.
C8_Witness ==
    \E r \in Runs : RejectedEarly(r) /\ i[r] = 3

\* A run consumed all of a three-symbol input.
C8_CompletedWitness ==
    \E r \in Runs : Completed(r) /\ Len(string[r]) = 3

\* C9: two runs of is_accepted on the same automaton and the same
\* all-in-alphabet input, interleaved in any order and repeated, end with
\* the same outcome: both panicked in the same assertion, or both returned
\* with the same verdict and the same path.
C9_Deterministic ==
    \A r, o \in Runs :
        ( /\ pc[r] \in {"done", "panicked"}
          /\ pc[o] \in {"done", "panicked"}
          /\ string[r] = string[o]
          /\ InAlphabet(dfa, string[r]) )
        => /\ pc[r] = pc[o]
           /\ fault[r] = fault[o]
           /\ sequence[r] = sequence[o]

\* Both runs returned an accepting trace for the same input of two or more
\* symbols.
C9_Witness ==
    /\ Returned(1) /\ Returned(2)
    /\ string[1] = string[2]
    /\ Len(string[1]) >= 2
    /\ sequence[1].accept

\* Both runs panicked on the same all-in-alphabet input.
C9_FatalWitness ==
    /\ Panicked(1) /\ Panicked(2)
    /\ string[1] = string[2]
    /\ InAlphabet(dfa, string[1])

\* The language of figure_one_six: w contains at least one 1 and an even
\* number of 0s follow the last 1.
InLanguage16(w) ==
    \E j \in 1..Len(w) :
        /\ w[j] = 1
        /\ \A k \in (j + 1)..Len(w) : w[k] = 0
        /\ (Len(w) - j) % 2 = 0

\* C10: the figure_one_six automaton returns a trace for every input over
\* {0,1}, and accepted is true if and only if the input contains at least
\* one 1 and an even number of 0s follow the last 1.
C10_Fig16Language ==
    \A r \in Runs :
        /\ ~Panicked(r)
        /\ Returned(r) => (sequence[r].accept <=> InLanguage16(string[r]))

\* [1,0,0] was accepted.
C10_Witness ==
    \E r \in Runs :
        Returned(r) /\ string[r] = <<1, 0, 0>> /\ sequence[r].accept

\* [1,0,0,0] was rejected.
C10_RejectWitness ==
    \E r \in Runs :
        Returned(r) /\ string[r] = <<1, 0, 0, 0>> /\ ~sequence[r].accept

\* The language of figure_one_eleven: the non-empty inputs whose first and
\* last symbols are equal.
InLanguage111(w) == Len(w) >= 1 /\ w[1] = w[Len(w)]

\* C11: the figure_one_eleven automaton returns a trace for every input over
\* {a,b}, and accepted is true if and only if the input is non-empty and its
\* first and last symbols are equal.
C11_Fig111Language ==
    \A r \in Runs :
        /\ ~Panicked(r)
        /\ Returned(r) => (sequence[r].accept <=> InLanguage111(string[r]))

\* ['a','b','a','b','a'] was accepted, through "q2".
C11_Witness ==
    \E r \in Runs :
        /\ Returned(r)
        /\ string[r] = <<char_a, char_b, char_a, char_b, char_a>>
        /\ sequence[r].accept

\* ['a','b'] was rejected.
C11_RejectWitness ==
    \E r \in Runs :
        Returned(r) /\ string[r] = <<char_a, char_b>> /\ ~sequence[r].accept

\* C12: is_accepted never changes the automaton: once the automaton exists,
\* no step (of a run that accepts, rejects early or panics, nor the next
\* call) changes any of its five components, and the snapshot held by a
\* trace equals the automaton component by component.
C12_AutomatonUnchanged ==
    /\ [][Built => dfa' = dfa]_vars
    /\ [](\A r \in Runs :
            pc[r] \in {"loop", "done"} =>
                /\ sequence[r].dfa.states = dfa.states
                /\ sequence[r].dfa.input_alphabet = dfa.input_alphabet
                /\ sequence[r].dfa.transition_function = dfa.transition_function
                /\ sequence[r].dfa.start_state = dfa.start_state
                /\ sequence[r].dfa.final_states = dfa.final_states)

\* A trace was returned after an early rejection by an automaton that has
\* accepting states.
C12_Witness ==
    \E r \in Runs :
        /\ RejectedEarly(r)
        /\ Len(string[r]) >= 2
        /\ dfa.final_states # {}
        /\ sequence[r].dfa = dfa

\* A run panicked in the states assertion and the automaton is still there.
C12_FatalWitness ==
    \E r \in Runs :
        Panicked(r) /\ fault[r] = "states" /\ dfa \in AllDfa

\* The 1-based index of the first symbol of w whose lookup is undefined in
\* the run from the start state; 0 if every step is defined.
FirstUndefined(d, w) ==
    LET U == { k \in 1..Len(w) : DeltaHat(d, d.start_state, Prefix(w, k)) = None }
    IN  IF U = {} THEN 0 ELSE CHOOSE k \in U : \A j \in U : k <= j

\* C13: every call of is_accepted terminates: a call that has started
\* reaches a final outcome, which is either a returned trace or a panic,
\* after at most n transition lookups; a run rejected early made its last
\* lookup at the failing symbol and makes none afterwards.
C13_Terminates ==
    /\ [](\A r \in Runs :
            /\ lookups[r] <= Len(string[r])
            /\ Returned(r) =>
                   /\ sequence[r] # NoSequence
                   /\ fault[r] = "none"
                   /\ lookups[r] = IF FirstUndefined(dfa, string[r]) # 0
                                     THEN FirstUndefined(dfa, string[r])
                                     ELSE Len(string[r])
            /\ Panicked(r) => (sequence[r] = NoSequence /\ fault[r] # "none"))
    /\ [][\A r \in Runs :
            RejectedEarly(r) => (lookups'[r] = lookups[r] \/ pc'[r] = "check")]_vars
    /\ \A r \in Runs :
            (pc[r] \in {"check", "loop"}) ~> (pc[r] \in {"done", "panicked"})

\* A run was rejected early at its first symbol, the second symbol never
\* looked up.
C13_Witness ==
    \E r \in Runs :
        /\ RejectedEarly(r)
        /\ i[r] = 1
        /\ Len(string[r]) = 2
        /\ lookups[r] = 1

\* A run panicked at its second lookup.
C13_FatalWitness ==
    \E r \in Runs :
        Panicked(r) /\ fault[r] = "states" /\ lookups[r] = 2

\* The variables of run r.
RunState(r) ==
    <<pc[r], string[r], i[r], state[r], sequence[r], fault[r], lookups[r]>>

\* The outcome of run r.
Outcome(r) == [pc |-> pc[r], fault |-> fault[r], sequence |-> sequence[r]]

\* C14: runs of is_accepted on one automaton interleaved step by step:
\* every step leaves the automaton and the variables of all runs but one
\* unchanged, and every run that ends has the outcome (panic, or verdict and
\* path) of the same call executed on its own.
C14_InterleavingSafe ==
    /\ [][ /\ dfa' = dfa
           /\ \E r \in Runs : \A o \in Runs \ {r} : RunState(o)' = RunState(o) ]_vars
    /\ [](\A r \in Runs :
            pc[r] \in {"done", "panicked"} => Outcome(r) = is_accepted(dfa, string[r]))

\* Both runs are in the middle of their main loops, on different inputs.
C14_Witness ==
    /\ pc[1] = "loop" /\ pc[2] = "loop"
    /\ i[1] = 2 /\ i[2] = 3
    /\ string[1] # string[2]
    /\ Len(string[1]) = 3

\* Both runs returned, one accepting and one rejecting early.
C14_ReturnedWitness ==
    /\ Completed(1) /\ sequence[1].accept /\ Len(string[1]) >= 2
    /\ RejectedEarly(2) /\ i[2] >= 2

\* The number of input symbols run r consumed successfully.
Consumed(r) == IF RejectedEarly(r) THEN i[r] - 1 ELSE Len(string[r])

\* C15: the path of every returned trace has (start_state, empty marker) as
\* its first entry, followed by one (state, symbol) pair per successfully
\* consumed input symbol.
C15_PathStartsWithEmptyMarker ==
    \A r \in Runs :
        Returned(r) =>
            /\ sequence[r].sequence[1] = <<dfa.start_state, EmptyMarker>>
            /\ Len(sequence[r].sequence) = 1 + Consumed(r)

\* C16: in every trace, entry 0 is (start_state, debug representation of
\* start_state), entry 1 is (start_state, empty marker), and every later
\* entry is (transition(state of the entry before it, w_i), representation
\* of w_i) for the input symbols w_1, w_2, .. in input order.
C16_PathShape ==
    \A r \in Runs :
        pc[r] \in {"loop", "done"} =>
            LET p == sequence[r].sequence
                w == string[r]
            IN  /\ Len(p) >= 2
                /\ Len(p) - 2 <= Len(w)
                /\ p[1] = <<dfa.start_state, Debug(dfa.start_state)>>
                /\ p[2] = <<dfa.start_state, EmptyMarker>>
                /\ \A k \in 1..(Len(p) - 2) :
                       /\ p[k + 2][1] = Delta(dfa.transition_function, p[k + 1][1], w[k])
                       /\ p[k + 2][2] = Debug(w[k])

\* A returned trace with three consumed symbols, the last one different
\* from the state it led to.
C16_Witness ==
    \E r \in Runs :
        /\ Completed(r)
        /\ Len(string[r]) = 3
        /\ sequence[r].sequence[5][1] # string[r][3]

\* C17: for an automaton built with new, every state in the path of a
\* trace is a member of the automaton's state set.
C17_PathStatesInStateSet ==
    \A r \in Runs :
        (ctor = "built" /\ pc[r] \in {"loop", "done"}) =>
            \A k \in 1..Len(sequence[r].sequence) :
                sequence[r].sequence[k][1] \in dfa.states

\* An automaton built with new, with a transition target outside its state
\* set at a pair the run did not reach, returned a three-symbol trace.
C17_Witness ==
    \E r \in Runs :
        /\ ctor = "built"
        /\ Completed(r)
        /\ Len(string[r]) = 3
        /\ \E q \in dfa.states, a \in dfa.input_alphabet : BadPair(dfa, q, a)

\* The state of the last entry of the path of run r.
LastPathState(r) == sequence[r].sequence[Len(sequence[r].sequence)][1]

\* C18: while no undefined transition has been hit the running verdict
\* equals "the current state is accepting", so the final check after the
\* loop changes nothing; in a returned trace accepted = true implies that
\* the last path state is accepting, and accepted = false with an accepting
\* last path state occurs only on early rejection.
C18_VerdictPathConsistent ==
    /\ [](\A r \in Runs :
            /\ (pc[r] = "loop" \/ Completed(r)) =>
                   /\ sequence[r].accept = (state[r] \in dfa.final_states)
                   /\ LastPathState(r) = state[r]
            /\ (Returned(r) /\ sequence[r].accept) =>
                   LastPathState(r) \in dfa.final_states
            /\ (Returned(r) /\ ~sequence[r].accept
                   /\ LastPathState(r) \in dfa.final_states) => RejectedEarly(r))
    /\ [][\A r \in Runs :
            (pc[r] = "loop" /\ pc'[r] = "done" /\ i[r] > Len(string[r])) =>
                sequence'[r] = sequence[r]]_vars

\* A run was rejected early, after two consumed symbols, in an accepting
\* state.
C18_Witness ==
    \E r \in Runs :
        /\ RejectedEarly(r)
        /\ i[r] = 3
        /\ ~sequence[r].accept
        /\ LastPathState(r) \in dfa.final_states

\* A run over the empty input returned accepted.
C18_EmptyWitness ==
    \E r \in Runs :
        Completed(r) /\ string[r] = <<>> /\ sequence[r].accept

\* u is a prefix of w.
IsPrefix(u, w) == Len(u) <= Len(w) /\ u = SubSeq(w, 1, Len(u))

\* C19: when is_accepted returns a trace for an all-in-alphabet input w,
\* a call on a prefix u of w returns a trace too, its path is a prefix of
\* the path for w, and the two paths are equal when the run on u was
\* rejected early.
C19_PrefixMonotone ==
    \A r, o \in Runs :
        ( /\ Returned(r)
          /\ InAlphabet(dfa, string[r])
          /\ pc[o] \in {"done", "panicked"}
          /\ IsPrefix(string[o], string[r]) )
        => /\ Returned(o)
           /\ IsPrefix(sequence[o].sequence, sequence[r].sequence)
           /\ RejectedEarly(o) => sequence[o].sequence = sequence[r].sequence

\* Run 2 consumed all of a proper, non-empty prefix of the input of run 1,
\* which consumed more.
C19_Witness ==
    /\ Returned(1) /\ Completed(2)
    /\ Len(string[2]) >= 1
    /\ Len(string[2]) < Len(string[1])
    /\ IsPrefix(string[2], string[1])
    /\ Len(sequence[1].sequence) > Len(sequence[2].sequence)

\* Run 2 was rejected early on a proper prefix of the input of run 1.
C19_EarlyWitness ==
    /\ Returned(1) /\ RejectedEarly(2)
    /\ Len(string[2]) < Len(string[1])
    /\ IsPrefix(string[2], string[1])

====
